---- MODULE Spec2Model ----
(***************************************************************************)
(* snowboard-reader (packages/snowboard-reader/src/index.js).              *)
(*                                                                         *)
(* A text is a sequence of tokens; a token is a piece of text that the     *)
(* regular expressions of index.js treat as a unit (a directive opener, a  *)
(* directive closer, a file name, a line break, ...).  A path is the       *)
(* sequence of its components.  A JSON object is the mapping from its leaf *)
(* key paths to its scalar leaves.                                         *)
(***************************************************************************)
EXTENDS Integers, Sequences, FiniteSets, TLC

\* ---------------------------------------------------------------- tokens
PO == "<!-- partial("
IO == "<!-- include("
SO == "<!-- seed("
CC == ") -->"
HP == "{{partial \""
HI == "{{include \""
HS == "{{seed \""
Q  == "\""
GT == "{{> "
MO == "{{"
BC == "}}"
NL == "\n"
SL == "/"

\* ---------------------------------------------------------------- bounds
\* most items (directives, words, line breaks) of a raw text in SpecRewrite
MaxItems == 3
\* deepest nesting of loadPartials / extractChildren calls the stack holds
MaxDepth == 4

\* ------------------------------------------------------ regular expressions
\* /OPEN(.+)CLOSE/g : one opener token, one capture group, the closers the
\* pattern admits ("\s?" lets a line break stand between the quote and "}}").
CommentPartial == [open |-> PO, close |-> {<<CC>>}]
CommentInclude == [open |-> IO, close |-> {<<CC>>}]
HelperPartial  == [open |-> HP, close |-> {<<Q, BC>>, <<Q, NL, BC>>}]
HelperInclude  == [open |-> HI, close |-> {<<Q, BC>>, <<Q, NL, BC>>}]
HelperSeed     == [open |-> HS, close |-> {<<Q, BC>>, <<Q, NL, BC>>}]
partialRegex   == [open |-> GT, close |-> {<<BC>>}]
seedRegex      == [open |-> SO, close |-> {<<CC>>}]

Max(S) == CHOOSE m \in S : \A n \in S : n <= m
Min(S) == CHOOSE m \in S : \A n \in S : m <= n

\* the closers of r that stand at position j of str
ClosersAt(str, r, j) ==
    {c \in r.close : /\ j + Len(c) - 1 <= Len(str)
                     /\ SubSeq(str, j, j + Len(c) - 1) = c}

\* where the match ends whose closer stands at j
MatchEnd(str, r, j) ==
    j + Len(CHOOSE c \in ClosersAt(str, r, j) : TRUE) - 1

\* positions where the closer may stand when the opener stands at i: "(.+)"
\* takes at least one token and never a line break
CloserPositions(str, r, i) ==
    {j \in (i + 2)..Len(str) :
        /\ ClosersAt(str, r, j) # {}
        /\ \A k \in (i + 1)..(j - 1) : str[k] # NL}

MatchesAt(str, r, i) ==
    /\ str[i] = r.open
    /\ CloserPositions(str, r, i) # {}

\* the capture group is greedy: of the closers that fit, the last one
MatchBetween(str, r, i, j) ==
    [found |-> TRUE, index |-> i, cap |-> SubSeq(str, i + 1, j - 1),
     lastIndex |-> MatchEnd(str, r, j)]

\* the match is the leftmost one; no match resets lastIndex to 0
MatchAmong(str, r, starts) ==
    IF starts = {}
    THEN [found |-> FALSE, index |-> 0, cap |-> <<>>, lastIndex |-> 0]
    ELSE MatchBetween(str, r, Min(starts),
                      Max(CloserPositions(str, r, Min(starts))))

\* regex.exec(str) of a global regex whose lastIndex is li
Exec(str, r, li) ==
    MatchAmong(str, r, {i \in (li + 1)..Len(str) : MatchesAt(str, r, i)})

NoMoreMatches(m) == [matches |-> <<>>, lastIndex |-> m.lastIndex]

\* matches.push(match)
Push(m, rest) ==
    [matches |-> <<m.cap>> \o rest.matches, lastIndex |-> rest.lastIndex]

\* matchAll with the while turned into an if: one exec only
MatchFirst(str, r, li) ==
    IF Exec(str, r, li).found
    THEN [matches |-> <<Exec(str, r, li).cap>>,
          lastIndex |-> Exec(str, r, li).lastIndex]
    ELSE NoMoreMatches(Exec(str, r, li))

RECURSIVE matchAll(_, _, _)

\* the body of the while loop of matchAll, m the match exec returned
MatchLoop(str, r, m) ==
    IF m.found THEN Push(m, matchAll(str, r, m.lastIndex))
    ELSE NoMoreMatches(m)

\* matchAll(str, regex): item[1] of every match, and the lastIndex the
\* regex object is left with
matchAll(str, r, li) == MatchLoop(str, r, Exec(str, r, li))

RECURSIVE ReplaceFrom(_, _, _, _)

\* one step of str.replace(/regex/g, to.pre $1 to.post) from position li on,
\* m the next match; to.keep = FALSE drops the match (replacement "")
ReplaceMatch(str, r, to, li, m) ==
    IF m.found
    THEN SubSeq(str, li + 1, m.index - 1)
            \o (IF to.keep THEN to.pre \o m.cap \o to.post ELSE <<>>)
            \o ReplaceFrom(str, r, to, m.lastIndex)
    ELSE SubSeq(str, li + 1, Len(str))

ReplaceFrom(str, r, to, li) == ReplaceMatch(str, r, to, li, Exec(str, r, li))

Replace(str, r, pre, post) ==
    ReplaceFrom(str, r, [pre |-> pre, post |-> post, keep |-> TRUE], 0)

\* rewriteSource, lines 33-41.  The rewrites of lines 43-60 need the text
\* "{{with index .", "{{join ", " | upcase}}" or "{{." and change no text
\* made of the tokens above.
rewriteSource(source) ==
    Replace(
      Replace(
        Replace(
          Replace(
            Replace(source \o <<NL>>, CommentPartial, <<GT>>, <<BC>>),
            CommentInclude, <<GT>>, <<BC>>),
          HelperPartial, <<GT>>, <<BC>>),
        HelperInclude, <<GT>>, <<BC>>),
      HelperSeed, <<SO>>, <<CC>>)

cleanupSource(source) ==
    ReplaceFrom(source, seedRegex,
                [pre |-> <<>>, post |-> <<>>, keep |-> FALSE], 0)

\* ------------------------------------------------------------------ paths
\* path.resolve(dir, ref) for a relative ref without "." or "..": the
\* components of dir, then those of ref
resolve(dir, ref) ==
    LET IsName(t) == t # SL
    IN  dir \o SelectSeq(ref, IsName)

dirname(file) == SubSeq(file, 1, Len(file) - 1)

\* ------------------------------------------------------------------- JSON
EmptyObject == [p \in {} |-> ""]

IsPrefix(p, q) == Len(p) <= Len(q) /\ SubSeq(q, 1, Len(p)) = p

\* lodash merge(object, source): a leaf of source replaces what object has at
\* that path, above it (a scalar where source has an object) or below it (an
\* object where source has a scalar); objects on both sides merge field by field
merge(object, source) ==
    LET kept == {p \in DOMAIN object :
                    \A q \in DOMAIN source : ~IsPrefix(p, q) /\ ~IsPrefix(q, p)}
    IN  [p \in kept \cup DOMAIN source |->
            IF p \in DOMAIN source THEN source[p] ELSE object[p]]

Reverse(s) == [i \in 1..Len(s) |-> s[Len(s) + 1 - i]]

\* ------------------------------------------------------------------ state
Calls == {1, 2}

VARIABLES
    fs,         \* the files on disk: path -> [text, json, valid]
    lastIndex,  \* lastIndex of the module's partialRegex and seedRegex objects
    pc,         \* per call: "idle", "await" (readFile pending), "done", "failed"
    op,         \* per call: "read" or "extractPaths"
    input,      \* per call: the root path
    result,     \* per call: what the promise settled with
    trace,      \* per call: what the call did (files read, partials rendered,
                \* the calls that were awaiting when it settled)
    arg,        \* the argument of the function applied in SpecRewrite / SpecSeeds
    ret         \* its result

vars == <<fs, lastIndex, pc, op, input, result, trace, arg, ret>>

\* what one synchronous run carries along: the two regex objects' lastIndex,
\* the files read so far and one entry per partial rendered
NewWorld(li) == [li |-> li, reads |-> <<>>, renders |-> <<>>]

Exists(file) == file \in DOMAIN fs

ReadFile(w, file) == [w EXCEPT !.reads = Append(@, file)]

\* --------------------------------------------------------- Seed Resolver
extractPartials(source, w) == matchAll(source, partialRegex, w.li.partial)

\* extractSeeds without the reverse()
ExtractSeedsInOrder(source, w) == matchAll(source, seedRegex, w.li.seed)

Reversed(m) == [matches |-> Reverse(m.matches), lastIndex |-> m.lastIndex]

extractSeeds(source, w) == Reversed(matchAll(source, seedRegex, w.li.seed))

RECURSIVE LoadSeedsFrom(_, _, _, _, _)

\* lines 111-115 for the seed file item[1] resolves to
LoadSeed(results, i, seeds, inputDir, w, file) ==
    IF ~Exists(file)
    THEN [err |-> "ENOENT", seeds |-> seeds, w |-> w]
    ELSE IF ~fs[file].valid
    THEN [err |-> "SyntaxError", seeds |-> seeds, w |-> ReadFile(w, file)]
    ELSE LoadSeedsFrom(results, i + 1, merge(seeds, fs[file].json), inputDir,
                       ReadFile(w, file))

\* the forEach of loadSeeds from item i on
LoadSeedsFrom(results, i, seeds, inputDir, w) ==
    IF i > Len(results)
    THEN [err |-> "", seeds |-> seeds, w |-> w]
    ELSE LoadSeed(results, i, seeds, inputDir, w, resolve(inputDir, results[i]))

LoadSeedsOf(m, inputDir, w) ==
    LoadSeedsFrom(m.matches, 1, EmptyObject, inputDir,
                  [w EXCEPT !.li.seed = m.lastIndex])

loadSeeds(source, inputDir, w) == LoadSeedsOf(extractSeeds(source, w), inputDir, w)

\* ------------------------------------------------------ templating engine
EmptyPartials == [ref \in {} |-> <<>>]

\* the value a {{key}} expression renders: a scalar as itself, an object
\* as "[object Object]", a key the context lacks as nothing
Lookup(ctx, key) ==
    IF <<key>> \in DOMAIN ctx THEN <<ctx[<<key>>]>>
    ELSE IF \E p \in DOMAIN ctx : p[1] = key THEN <<"[object Object]">>
    ELSE <<>>

RenderFailed == [ok |-> FALSE, text |-> <<>>]

Then(piece, rest) ==
    IF rest.ok THEN [ok |-> TRUE, text |-> piece \o rest.text] ELSE RenderFailed

RECURSIVE RenderFrom(_, _, _, _)

\* the statement that opens at i and closes at j: {{> name}} is replaced by
\* the text registered under name (a name not registered throws), {{key}} by
\* the context's value
RenderStatement(tpl, i, j, name, partials, ctx) ==
    IF tpl[i] = GT
    THEN IF name \notin DOMAIN partials THEN RenderFailed
         ELSE Then(partials[name], RenderFrom(tpl, j + 1, partials, ctx))
    ELSE IF Len(name) # 1 THEN RenderFailed
         ELSE Then(Lookup(ctx, name[1]), RenderFrom(tpl, j + 1, partials, ctx))

\* a mustache ends at the first "}}" after it opens
RenderMustache(tpl, i, closers, partials, ctx) ==
    IF closers = {} THEN RenderFailed
    ELSE RenderStatement(tpl, i, Min(closers),
                         SubSeq(tpl, i + 1, Min(closers) - 1), partials, ctx)

\* handlebars.compile(tpl, {noEscape: true})(ctx) with the partials
\* registered, from token i on: a call of a helper that is not registered
\* ("partial", "include", "seed") throws, text outside mustaches is copied
RenderFrom(tpl, i, partials, ctx) ==
    IF i > Len(tpl) THEN [ok |-> TRUE, text |-> <<>>]
    ELSE IF tpl[i] \in {HP, HI, HS} THEN RenderFailed
    ELSE IF tpl[i] \in {GT, MO}
    THEN RenderMustache(tpl, i, {j \in (i + 1)..Len(tpl) : tpl[j] = BC},
                        partials, ctx)
    ELSE Then(<<tpl[i]>>, RenderFrom(tpl, i + 1, partials, ctx))

Render(tpl, partials, ctx) == RenderFrom(tpl, 1, partials, ctx)

\* -------------------------------------------------------- Partial Resolver
\* registerPartial(key, val) / partials[key] = val for every entry of more
Register(partials, more) ==
    [ref \in DOMAIN partials \cup DOMAIN more |->
        IF ref \in DOMAIN more THEN more[ref] ELSE partials[ref]]

Failed(err, seeds, w) ==
    [err |-> err, partials |-> EmptyPartials, seeds |-> seeds, w |-> w]

\* line 87: the seeds of a partial file are extracted from the text as read
PartialSeedSource(source, data) == source

\* lines 99-100 swapped: the partial rendered before its seeds are merged
RenderBeforeMerge(tpl, registered, seeds, childrenSeeds) ==
    [out |-> Render(tpl, registered, seeds), used |-> seeds,
     seeds |-> merge(seeds, childrenSeeds)]

\* lines 95-100: compile, merge(seeds, childrenSeeds), then template(seeds);
\* used is the context the template was rendered with
RenderPartial(tpl, registered, seeds, childrenSeeds) ==
    [out |-> Render(tpl, registered, merge(seeds, childrenSeeds)),
     used |-> merge(seeds, childrenSeeds),
     seeds |-> merge(seeds, childrenSeeds)]

RECURSIVE loadPartials(_, _, _, _, _)
RECURSIVE LoadPartialsFrom(_, _, _)

\* what the trace keeps of one rendering of a partial
Rendering(k, file, seedFiles, rendered) ==
    [file |-> file, ref |-> k.results[k.i], text |-> rendered.out.text,
     context |-> rendered.used, seedFiles |-> seedFiles]

\* line 100: partials[item[1]] = template(seeds); then the next item
StorePartial(k, file, seedFiles, children, w, rendered) ==
    IF ~rendered.out.ok THEN Failed("Error", rendered.seeds, w)
    ELSE LoadPartialsFrom(
            [k EXCEPT !.i = @ + 1,
                      !.registered = Register(@, children),
                      !.partials = Register(Register(@, children),
                                     (k.results[k.i] :> rendered.out.text))],
            rendered.seeds,
            [w EXCEPT !.renders =
                Append(@, Rendering(k, file, seedFiles, rendered))])

\* lines 90-99: the children's partials are registered and kept, the text is
\* compiled without its seed comments
RegisterChildren(k, file, data, seedFiles, childrenSeeds, childrenPartials) ==
    IF childrenPartials.err # ""
    THEN Failed(childrenPartials.err, childrenPartials.seeds,
                childrenPartials.w)
    ELSE StorePartial(k, file, seedFiles, childrenPartials.partials,
                      childrenPartials.w,
                      RenderPartial(cleanupSource(data),
                                    Register(k.registered,
                                             childrenPartials.partials),
                                    childrenPartials.seeds, childrenSeeds))

\* line 88: loadPartials(data, seeds, sourceDir)
LoadChildrenPartials(k, seeds, file, data, nreads, childrenSeeds) ==
    IF childrenSeeds.err # ""
    THEN Failed(childrenSeeds.err, seeds, childrenSeeds.w)
    ELSE RegisterChildren(k, file, data,
                          SubSeq(childrenSeeds.w.reads, nreads + 1,
                                 Len(childrenSeeds.w.reads)),
                          childrenSeeds.seeds,
                          loadPartials(data, seeds, dirname(file),
                                       childrenSeeds.w, k.depth + 1))

\* line 87: loadSeeds(source, sourceDir)
LoadChildrenSeeds(k, seeds, file, source, data, w) ==
    LoadChildrenPartials(k, seeds, file, data, Len(w.reads),
                         loadSeeds(PartialSeedSource(source, data),
                                   dirname(file), w))

\* lines 83-86: the partial file is read and rewritten
ReadPartial(k, seeds, w, inputFile) ==
    IF ~Exists(inputFile) THEN Failed("ENOENT", seeds, w)
    ELSE LoadChildrenSeeds(k, seeds, inputFile, fs[inputFile].text,
                           rewriteSource(fs[inputFile].text),
                           ReadFile(w, inputFile))

\* loadPartials skipping an item whose reference string it has rendered
LoadPartialsMemo(k, seeds, w) ==
    IF k.i > Len(k.results)
    THEN [err |-> "", partials |-> k.partials, seeds |-> seeds, w |-> w]
    ELSE IF k.results[k.i] \in DOMAIN k.partials
    THEN LoadPartialsFrom([k EXCEPT !.i = @ + 1], seeds, w)
    ELSE ReadPartial(k, seeds, w, resolve(k.inputDir, k.results[k.i]))

\* the forEach of loadPartials from item k.i on; k.registered is what this
\* call's handlebars instance has had registered, k.partials the map it returns
LoadPartialsFrom(k, seeds, w) ==
    IF k.i > Len(k.results)
    THEN [err |-> "", partials |-> k.partials, seeds |-> seeds, w |-> w]
    ELSE ReadPartial(k, seeds, w, resolve(k.inputDir, k.results[k.i]))

LoadPartialsOf(m, seeds, inputDir, w, depth) ==
    LoadPartialsFrom([results |-> m.matches, i |-> 1,
                      partials |-> EmptyPartials, registered |-> EmptyPartials,
                      inputDir |-> inputDir, depth |-> depth],
                     seeds, [w EXCEPT !.li.partial = m.lastIndex])

\* loadPartials that walks one level only and returns no partials below it
LoadPartialsShallow(source, seeds, inputDir, w, depth) ==
    IF depth > 1
    THEN [err |-> "", partials |-> EmptyPartials, seeds |-> seeds, w |-> w]
    ELSE LoadPartialsOf(extractPartials(source, w), seeds, inputDir, w, depth)

\* depth counts the loadPartials calls on the stack; past MaxDepth the call
\* throws RangeError (maximum call stack size exceeded)
loadPartials(source, seeds, inputDir, w, depth) ==
    IF depth > MaxDepth THEN Failed("RangeError", seeds, w)
    ELSE LoadPartialsOf(extractPartials(source, w), seeds, inputDir, w, depth)

\* ------------------------------------------------------- Read Orchestrator
Settled(err, text, seeds, w) ==
    [err |-> err, text |-> text, seeds |-> seeds, paths |-> <<>>, w |-> w]

\* line 132: template(seeds)
RewriteRendered(partials, out) ==
    IF ~out.ok THEN Settled("Error", <<>>, partials.seeds, partials.w)
    ELSE Settled("", out.text, partials.seeds, partials.w)

\* lines 127-131: the partials are registered, the text compiled without its
\* seed comments
RewritePartials(data, partials) ==
    IF partials.err # ""
    THEN Settled(partials.err, <<>>, partials.seeds, partials.w)
    ELSE RewriteRendered(partials, Render(cleanupSource(data),
                                          partials.partials, partials.seeds))

\* line 125: loadPartials(data, seeds, inputDir)
RewriteSeeded(data, inputDir, seeds) ==
    IF seeds.err # "" THEN Settled(seeds.err, <<>>, seeds.seeds, seeds.w)
    ELSE RewritePartials(data, loadPartials(data, seeds.seeds, inputDir,
                                            seeds.w, 1))

\* line 124: loadSeeds(data, inputDir)
RewriteData(data, inputDir, w) ==
    RewriteSeeded(data, inputDir, loadSeeds(data, inputDir, w))

rewriteInput(source, inputDir, w) ==
    RewriteData(rewriteSource(source), inputDir, w)

\* ---------------------------------------------------- Dependency Extractor
Paths(inputDir, refs) == [i \in 1..Len(refs) |-> resolve(inputDir, refs[i])]

\* lines 153-154: the partials' paths are pushed, then the seeds' paths
PushChildren(children, inputDir, partials, seeds) ==
    children \o Paths(inputDir, partials) \o Paths(inputDir, seeds)

RECURSIVE extractChildren(_, _, _, _, _)
RECURSIVE ExtractChildrenFrom(_, _, _, _, _, _)

\* the next partial of the first forEach, once the walk below returned
WalkNext(partials, i, inputDir, depth, below) ==
    IF below.err # "" THEN below
    ELSE ExtractChildrenFrom(partials, i + 1, inputDir, below.children,
                             below.w, depth)

\* resolveFile, lines 135-141, and the walk of the file it read (line 150)
resolveFile(partials, i, inputDir, children, w, depth, inputFile) ==
    IF ~Exists(inputFile)
    THEN [err |-> "ENOENT", children |-> children, w |-> w]
    ELSE WalkNext(partials, i, inputDir, depth,
                  extractChildren(rewriteSource(fs[inputFile].text),
                                  dirname(inputFile), children,
                                  ReadFile(w, inputFile), depth + 1))

\* the first forEach of extractChildren (lines 148-151) from partial i on
ExtractChildrenFrom(partials, i, inputDir, children, w, depth) ==
    IF i > Len(partials) THEN [err |-> "", children |-> children, w |-> w]
    ELSE resolveFile(partials, i, inputDir, children, w, depth,
                     resolve(inputDir, partials[i]))

\* lines 153-154 with unshift for push
UnshiftAfter(partials, seeds, inputDir, below) ==
    IF below.err # "" THEN below
    ELSE [err |-> "", w |-> below.w,
          children |-> Paths(inputDir, partials) \o Paths(inputDir, seeds)
                          \o below.children]

\* lines 153-154, once the walks below returned
PushAfter(partials, seeds, inputDir, below) ==
    IF below.err # "" THEN below
    ELSE [err |-> "", w |-> below.w,
          children |-> PushChildren(below.children, inputDir, partials, seeds)]

\* lines 148-154 for the directives matched in sourceClean
ExtractMatched(partials, seeds, inputDir, children, w, depth) ==
    PushAfter(partials.matches, seeds.matches, inputDir,
              ExtractChildrenFrom(partials.matches, 1, inputDir, children,
                                  [w EXCEPT !.li = [partial |-> partials.lastIndex,
                                                    seed |-> seeds.lastIndex]],
                                  depth))

\* lines 145-146
ExtractDirectives(sourceClean, inputDir, children, w, depth) ==
    ExtractMatched(extractPartials(sourceClean, w),
                   extractSeeds(sourceClean, w), inputDir, children, w, depth)

\* depth counts the extractChildren calls on the stack; past MaxDepth the
\* call throws RangeError (maximum call stack size exceeded)
extractChildren(source, inputDir, children, w, depth) ==
    IF depth > MaxDepth
    THEN [err |-> "RangeError", children |-> children, w |-> w]
    ELSE ExtractDirectives(rewriteSource(source), inputDir, children, w, depth)

\* ------------------------------------------------------------ files on disk
Seed(f)  == <<SO, f, CC>>
SeedH(f) == <<HS, f, Q, BC>>
Part(f)  == <<GT, f, BC>>
PartC(f) == <<PO, f, CC>>
InclC(f) == <<IO, f, CC>>
PartH(f) == <<HP, f, Q, BC>>
InclH(f) == <<HI, f, Q, BC>>
Var(k)   == <<MO, k, BC>>

TextFile(t) == [text |-> t, json |-> EmptyObject, valid |-> FALSE]
JsonFile(j) == [text |-> <<"{}">>, json |-> j, valid |-> TRUE]
BadJson     == [text |-> <<"{">>, json |-> EmptyObject, valid |-> FALSE]

RootFile  == <<"root.txt">>
ChildFile == <<"child.txt">>
OtherFile == <<"other.txt">>
LeafFile  == <<"leaf.txt">>

AJson == (<<"x">> :> "1") @@ (<<"y">> :> "1")
BJson == (<<"x">> :> "2") @@ (<<"z">> :> "2")
CJson == (<<"z">> :> "3") @@ (<<"k", "a">> :> "3")

RootTexts ==
    { <<"Title">>,
      Seed("a.json") \o <<NL>> \o Part("child.txt"),
      Part("child.txt"),
      Part("child.txt") \o <<NL>> \o Part("child.txt"),
      Part("child.txt") \o <<NL>> \o Part("other.txt") \o <<NL>> \o Var("z"),
      Part("other.txt") \o <<NL>> \o Part("child.txt"),
      SeedH("a.json") \o <<NL>> \o PartC("child.txt"),
      Seed("a.json") \o <<NL>> \o Seed("c.json") \o <<NL>> \o Var("x"),
      PartC("child.txt") \o PartC("other.txt") }

ChildTexts ==
    { <<"Hello ">> \o Var("x"),
      Seed("b.json") \o <<"Hello ">> \o Var("x"),
      SeedH("b.json") \o <<NL, "Hello ">> \o Var("x") \o Var("z"),
      Seed("b.json") \o <<NL>> \o Part("leaf.txt") \o <<NL>> \o Var("z"),
      SeedH("a.json") \o Seed("b.json") \o <<NL>> \o Var("x"),
      Seed("missing.json") \o <<"Hello ">>,
      SeedH("missing.json") \o <<NL, "Hello ">>,
      InclH("missing.txt"),
      InclC("leaf.txt") \o <<NL>> \o Seed("c.json") \o <<NL>> \o Seed("b.json") }

OtherText == Seed("c.json") \o <<"Other ">> \o Var("x")
LeafText  == <<"Leaf ">> \o Var("z")

BStates == {"valid", "invalid", "missing"}

BFile(b) ==
    IF b = "valid" THEN (<<"b.json">> :> JsonFile(BJson))
    ELSE IF b = "invalid" THEN (<<"b.json">> :> BadJson)
    ELSE [f \in {} |-> BadJson]

FileSystem(rootText, childText, b) ==
       (RootFile :> TextFile(rootText))
    @@ (ChildFile :> TextFile(childText))
    @@ (OtherFile :> TextFile(OtherText))
    @@ (LeafFile :> TextFile(LeafText))
    @@ (<<"a.json">> :> JsonFile(AJson))
    @@ (<<"c.json">> :> JsonFile(CJson))
    @@ BFile(b)

FileSystems ==
    {FileSystem(r, k, b) : r \in RootTexts, k \in ChildTexts, b \in BStates}

Inputs == {RootFile, ChildFile, LeafFile}
Ops == {"read", "extractPaths"}

\* ---------------------------------------------------------------- actions
NoResult == [err |-> "", text |-> <<>>, paths |-> <<>>]
NoTrace  == [reads |-> <<>>, renders |-> <<>>, seeds |-> EmptyObject,
             overlapped |-> {}]
NoArg    == [source |-> <<>>]
NoRet    == [done |-> FALSE, err |-> "", text |-> <<>>, seeds |-> EmptyObject]

Init ==
    /\ fs \in FileSystems
    /\ lastIndex = [partial |-> 0, seed |-> 0]
    /\ pc = [c \in Calls |-> "idle"]
    /\ op = [c \in Calls |-> "read"]
    /\ input = [c \in Calls |-> RootFile]
    /\ result = [c \in Calls |-> NoResult]
    /\ trace = [c \in Calls |-> NoTrace]
    /\ arg = NoArg
    /\ ret = NoRet

\* read(input) or extractPaths(input) is called and runs up to its await
Call(c, o, f) ==
    /\ pc[c] = "idle"
    /\ pc' = [pc EXCEPT ![c] = "await"]
    /\ op' = [op EXCEPT ![c] = o]
    /\ input' = [input EXCEPT ![c] = f]
    /\ UNCHANGED <<fs, lastIndex, result, trace, arg, ret>>

\* readInput: the text of the root and its directory, ENOENT if it is missing
readInput(file, w) ==
    IF Exists(file)
    THEN [err |-> "", source |-> fs[file].text, inputDir |-> dirname(file),
          w |-> ReadFile(w, file)]
    ELSE [err |-> "ENOENT", source |-> <<>>, inputDir |-> dirname(file),
          w |-> w]

ReadOpened(opened) ==
    IF opened.err # "" THEN Settled(opened.err, <<>>, EmptyObject, opened.w)
    ELSE rewriteInput(opened.source, opened.inputDir, opened.w)

\* read, lines 164-167, from the await on
read(file, li) == ReadOpened(readInput(file, NewWorld(li)))

PathsWalked(walked) ==
    [err |-> walked.err, text |-> <<>>, seeds |-> EmptyObject,
     paths |-> IF walked.err = "" THEN walked.children ELSE <<>>,
     w |-> walked.w]

PathsOpened(file, opened) ==
    IF opened.err # "" THEN Settled(opened.err, <<>>, EmptyObject, opened.w)
    ELSE PathsWalked(extractChildren(opened.source, opened.inputDir, <<file>>,
                                     opened.w, 1))

\* extractPaths, lines 169-176, from the await on
extractPaths(file, li) == PathsOpened(file, readInput(file, NewWorld(li)))

\* the promise of call c settles with r
Settle(c, r) ==
    /\ pc' = [pc EXCEPT ![c] = IF r.err = "" THEN "done" ELSE "failed"]
    /\ result' = [result EXCEPT ![c] =
                    [err |-> r.err, text |-> r.text, paths |-> r.paths]]
    /\ trace' = [trace EXCEPT ![c] =
                    [reads |-> r.w.reads, renders |-> r.w.renders,
                     seeds |-> r.seeds,
                     overlapped |-> {d \in Calls \ {c} : pc[d] = "await"}]]
    /\ lastIndex' = r.w.li
    /\ UNCHANGED <<fs, op, input, arg, ret>>

\* the root has been read: the rest of read(input) runs to completion
ReadResumes(c) ==
    /\ pc[c] = "await"
    /\ op[c] = "read"
    /\ Settle(c, read(input[c], lastIndex))

\* the root has been read: the rest of extractPaths(input) runs to completion
ExtractPathsResumes(c) ==
    /\ pc[c] = "await"
    /\ op[c] = "extractPaths"
    /\ Settle(c, extractPaths(input[c], lastIndex))

\* the caller has taken the result; the call slot is free for a next call
Return(c) ==
    /\ pc[c] \in {"done", "failed"}
    /\ pc' = [pc EXCEPT ![c] = "idle"]
    /\ result' = [result EXCEPT ![c] = NoResult]
    /\ trace' = [trace EXCEPT ![c] = NoTrace]
    /\ UNCHANGED <<fs, lastIndex, op, input, arg, ret>>

Next ==
    \E c \in Calls :
        \/ \E o \in Ops, f \in Inputs : Call(c, o, f)
        \/ ReadResumes(c)
        \/ ExtractPathsResumes(c)
        \/ Return(c)

Spec == Init /\ [][Next]_vars

\* ------------------------------------------- rewriteSource on its own
\* a raw text is a sequence of items: directives in every spelling, a word,
\* a line break
Names == {"a.txt", "b.txt"}

DirectiveKinds == {PO, IO, HP, HI, GT, HS, SO}
LegacyPartialKinds == {PO, IO, HP, HI}

Items ==
    [kind : DirectiveKinds, name : Names]
        \cup {[kind |-> "text", name |-> "Hello "], [kind |-> NL, name |-> NL]}

ItemText(it) ==
    IF it.kind \in {PO, IO, SO} THEN <<it.kind, it.name, CC>>
    ELSE IF it.kind \in {HP, HI, HS} THEN <<it.kind, it.name, Q, BC>>
    ELSE IF it.kind = GT THEN <<GT, it.name, BC>>
    ELSE <<it.name>>

RECURSIVE TextOf(_)
TextOf(items) ==
    IF items = <<>> THEN <<>> ELSE ItemText(Head(items)) \o TextOf(Tail(items))

ItemSeqs == UNION {[1..n -> Items] : n \in 0..MaxItems}

InitRewrite ==
    /\ fs = [f \in {} |-> BadJson]
    /\ lastIndex = [partial |-> 0, seed |-> 0]
    /\ pc = [c \in Calls |-> "idle"]
    /\ op = [c \in Calls |-> "read"]
    /\ input = [c \in Calls |-> RootFile]
    /\ result = [c \in Calls |-> NoResult]
    /\ trace = [c \in Calls |-> NoTrace]
    /\ arg \in {[items |-> items, source |-> TextOf(items)] : items \in ItemSeqs}
    /\ ret = NoRet

ApplyRewriteSource ==
    /\ ~ret.done
    /\ ret' = [ret EXCEPT !.done = TRUE, !.text = rewriteSource(arg.source)]
    /\ UNCHANGED <<fs, lastIndex, pc, op, input, result, trace, arg>>

SpecRewrite == InitRewrite /\ [][ApplyRewriteSource]_vars

\* ------------------------------------------------- loadSeeds on its own
X1 == (<<"x">> :> "1")
SeedObjects ==
    { X1,
      (<<"x">> :> "2") @@ (<<"y">> :> "2"),
      (<<"k", "a">> :> "1") @@ (<<"x">> :> "1"),
      (<<"k", "b">> :> "2") @@ (<<"x">> :> "2"),
      (<<"k", "a">> :> "2") @@ (<<"k", "b">> :> "2"),
      (<<"k">> :> "1") @@ (<<"z">> :> "1") }

\* texts whose seed directives are a.json, then b.json
SeedTexts ==
    { Seed("a.json") \o <<NL>> \o Seed("b.json"),
      Seed("a.json") \o <<"Hello ", NL>> \o Var("x") \o <<NL>> \o Seed("b.json"),
      Seed("a.json") \o Seed("b.json") }

InitSeeds ==
    /\ \E a \in SeedObjects, b \in SeedObjects :
          fs = (<<"a.json">> :> JsonFile(a)) @@ (<<"b.json">> :> JsonFile(b))
    /\ lastIndex = [partial |-> 0, seed |-> 0]
    /\ pc = [c \in Calls |-> "idle"]
    /\ op = [c \in Calls |-> "read"]
    /\ input = [c \in Calls |-> RootFile]
    /\ result = [c \in Calls |-> NoResult]
    /\ trace = [c \in Calls |-> NoTrace]
    /\ \E t \in SeedTexts : arg = [source |-> t]
    /\ ret = NoRet

Loaded(r) ==
    /\ ret' = [ret EXCEPT !.done = TRUE, !.err = r.err, !.seeds = r.seeds]
    /\ lastIndex' = r.w.li

ApplyLoadSeeds ==
    /\ ~ret.done
    /\ Loaded(loadSeeds(arg.source, <<>>, NewWorld(lastIndex)))
    /\ UNCHANGED <<fs, pc, op, input, result, trace, arg>>

SpecSeeds == InitSeeds /\ [][ApplyLoadSeeds]_vars

\* ============================================================ properties
Range(f) == {f[i] : i \in DOMAIN f}

TopKeys(obj) == {p[1] : p \in DOMAIN obj}

\* the value obj has at top-level key k: the leaves below k
Sub(obj, k) == [p \in {q \in DOMAIN obj : q[1] = k} |-> obj[p]]

IsObjectAt(obj, k) == \E p \in DOMAIN obj : p[1] = k /\ Len(p) > 1

\* ---- C10
Canonical(it) == IF it.kind \in LegacyPartialKinds THEN Part(it.name)
                 ELSE Seed(it.name)

RECURSIVE CanonicalText(_)
CanonicalText(items) ==
    IF items = <<>> THEN <<>>
    ELSE Canonical(Head(items)) \o CanonicalText(Tail(items))

\* the items are N >= 1 directives of one legacy kind, on one line
SameLegacyKindLine(items) ==
    /\ items # <<>>
    /\ \A i \in DOMAIN items : /\ items[i].kind \in LegacyPartialKinds \cup {HS}
                               /\ items[i].kind = items[1].kind

\* C10: rewriteSource rewrites each of the N legacy directives of one kind
\* that stand on one line into its own canonical directive, each with its
\* own reference string.
C10_EachDirectiveRewritten ==
    (ret.done /\ SameLegacyKindLine(arg.items))
        => ret.text = CanonicalText(arg.items) \o <<NL>>

\* ---- C5
AObject == fs[<<"a.json">>].json
BObject == fs[<<"b.json">>].json

Returned == ret.done /\ ret.err = ""

Fresh == NewWorld([partial |-> 0, seed |-> 0])

\* the files the partial / seed directives of a file's rewritten text name
PartialsOf(file) ==
    Paths(dirname(file), extractPartials(rewriteSource(fs[file].text), Fresh).matches)

SeedsOf(file) ==
    Paths(dirname(file), extractSeeds(rewriteSource(fs[file].text), Fresh).matches)

\* the files reached from file by partial directives, fuel levels down
RECURSIVE Tree(_, _)
Tree(file, fuel) ==
    IF ~Exists(file) THEN {}
    ELSE IF fuel = 0 THEN {file}
    ELSE {file} \cup UNION {Tree(p, fuel - 1) : p \in Range(PartialsOf(file))}

\* how many partial directives met on the walk from file name target
RECURSIVE Occurrences(_, _, _)
RECURSIVE OccurrencesFrom(_, _, _, _)
OccurrencesFrom(refs, i, target, fuel) ==
    IF i > Len(refs) THEN 0
    ELSE (IF refs[i] = target THEN 1 ELSE 0)
            + Occurrences(refs[i], target, fuel - 1)
            + OccurrencesFrom(refs, i + 1, target, fuel)

Occurrences(file, target, fuel) ==
    IF ~Exists(file) \/ fuel = 0 THEN 0
    ELSE OccurrencesFrom(PartialsOf(file), 1, target, fuel)

KeysOf(files) == UNION {TopKeys(fs[s].json) : s \in Range(files) \cap DOMAIN fs}

ReadSettled(c) == op[c] = "read" /\ pc[c] \in {"done", "failed"}
ReadDone(c) == op[c] = "read" /\ pc[c] = "done"
PathsDone(c) == op[c] = "extractPaths" /\ pc[c] = "done"

RendersOf(c, file) ==
    {i \in DOMAIN trace[c].renders : trace[c].renders[i].file = file}

\* ---- C1
C1Root  == Seed("a.json") \o <<NL>> \o Part("child.txt")
C1Child == Seed("b.json") \o <<"Hello ">> \o Var("x")

C1Case(c) ==
    /\ ReadDone(c) /\ input[c] = RootFile
    /\ fs[RootFile].text = C1Root /\ fs[ChildFile].text = C1Child

\* C1: with root.txt seeding {x:1,y:1} (a.json) and its partial child.txt
\* seeding {x:2,z:2} (b.json), read ends with the Seed Context {x:1,y:1,z:2}
\* and renders the child as "Hello 1".
C1_RootSeedWins ==
    \A c \in Calls : C1Case(c) =>
        /\ trace[c].seeds = (<<"x">> :> "1") @@ (<<"y">> :> "1") @@ (<<"z">> :> "2")
        /\ \A i \in RendersOf(c, ChildFile) :
              SubSeq(trace[c].renders[i].text, 1, 2) = <<"Hello ", "1">>

C3_RenderedOnce ==
    \A c \in Calls : ReadDone(c) =>
        \A f \in DOMAIN fs : Cardinality(RendersOf(c, f)) <= 1

\* C3 (amended): one call of read renders a partial file once for every
\* partial directive met on the walk that references it: the number of
\* renderings of a file is the number of those directives.
C3_RenderedOncePerDirective ==
    \A c \in Calls : ReadDone(c) =>
        \A f \in DOMAIN fs :
            Cardinality(RendersOf(c, f)) = Occurrences(input[c], f, MaxDepth)

\* a partial referenced by two directives of the root was rendered twice
C3_Witness ==
    \E c \in Calls : ReadDone(c) /\
        \E f \in DOMAIN fs :
            /\ Cardinality(RendersOf(c, f)) = 2
            /\ Cardinality({i \in DOMAIN PartialsOf(input[c]) :
                               PartialsOf(input[c])[i] = f}) = 2

\* ---- C4
\* C4: the seed files loaded for a partial file are the seed directives of
\* its rewritten (normalized) text, in every spelling.
C4_PartialSeedsFromNormalizedText ==
    \A c \in Calls : ReadSettled(c) =>
        \A i \in DOMAIN trace[c].renders :
            trace[c].renders[i].seedFiles = SeedsOf(trace[c].renders[i].file)

\* ---- C6
NoReferences(file) == PartialsOf(file) = <<>> /\ SeedsOf(file) = <<>>

\* file has one partial directive and no seed; the partial has one seed
\* directive and no partial
OnePartialWithOneSeed(file) ==
    /\ Len(PartialsOf(file)) = 1 /\ SeedsOf(file) = <<>>
    /\ Exists(PartialsOf(file)[1])
    /\ PartialsOf(PartialsOf(file)[1]) = <<>>
    /\ Len(SeedsOf(PartialsOf(file)[1])) = 1

ThePartial(file) == PartialsOf(file)[1]
TheSeed(file) == SeedsOf(ThePartial(file))[1]

\* C6 (as stated): extractPaths returns the root alone for a root without
\* directives, and root, partial, partial's seed for a root with one partial
\* that declares one seed.
C6_RootPartialSeed ==
    \A c \in Calls : PathsDone(c) =>
        /\ NoReferences(input[c]) => result[c].paths = <<input[c]>>
        /\ OnePartialWithOneSeed(input[c]) =>
              result[c].paths = <<input[c], ThePartial(input[c]), TheSeed(input[c])>>

\* C6 (amended): extractPaths returns the root alone for a root without
\* directives, and three entries in the order root, partial's seed, partial
\* for a root with one partial that declares one seed.
C6_RootSeedPartial ==
    \A c \in Calls : PathsDone(c) =>
        /\ NoReferences(input[c]) => result[c].paths = <<input[c]>>
        /\ OnePartialWithOneSeed(input[c]) =>
              result[c].paths = <<input[c], TheSeed(input[c]), ThePartial(input[c])>>

\* both cases of C6 were enumerated
C6_Witness ==
    \E c, d \in Calls :
        /\ PathsDone(c) /\ OnePartialWithOneSeed(input[c])
        /\ Len(result[c].paths) = 3
        /\ PathsDone(d) /\ NoReferences(input[d])

\* ---- C7
\* C7: for the same root and files, every file read reads is an entry of
\* the list extractPaths returns, and the list starts with the root.
C7_PathsCoverReads ==
    \A c, d \in Calls :
        (ReadSettled(c) /\ PathsDone(d) /\ input[c] = input[d]) =>
            /\ Range(trace[c].reads) \subseteq Range(result[d].paths)
            /\ result[d].paths[1] = input[d]

\* ---- C8
\* a directive of the tree names a missing file or a seed that is not JSON
Broken(root) ==
    \E f \in Tree(root, MaxDepth) :
        \/ \E p \in Range(PartialsOf(f)) : ~Exists(p)
        \/ \E s \in Range(SeedsOf(f)) : ~Exists(s) \/ ~fs[s].valid

\* C8: when a file named by a directive of the tree is missing, or a named
\* seed is not valid JSON, read fails and returns no text.
C8_FailsAsAWhole ==
    \A c \in Calls : (ReadSettled(c) /\ Broken(input[c])) =>
        pc[c] = "failed" /\ result[c].text = <<>>

\* ---- C9
\* what read returns for file when no other call runs
Alone(file) == read(file, [partial |-> 0, seed |-> 0])

\* C9: a read that settles, whatever the other call did in between, returns
\* what the same read returns when it runs alone, and leaves the matching
\* state of the two expressions at rest.
C9_SameAsAlone ==
    /\ lastIndex = [partial |-> 0, seed |-> 0]
    /\ \A c \in Calls : ReadSettled(c) =>
          /\ result[c].err = Alone(input[c]).err
          /\ result[c].text = Alone(input[c]).text

\* a read that rendered a partial settled while the other call was awaiting
\* its root, and the other call then settled as a read too
C9_Witness ==
    \E c, d \in Calls :
        /\ c # d /\ ReadDone(c) /\ ReadDone(d)
        /\ d \in trace[c].overlapped
        /\ trace[c].renders # <<>> /\ trace[d].renders # <<>>

\* ---- C11
\* file systems where partial directives lead back to a file being resolved
CycleFileSystem(rootText, childText, leafText) ==
       (RootFile :> TextFile(rootText))
    @@ (ChildFile :> TextFile(childText))
    @@ (LeafFile :> TextFile(leafText))
    @@ (<<"a.json">> :> JsonFile(AJson))

CycleFileSystems ==
    { CycleFileSystem(Part("root.txt"), <<"Hello">>, LeafText),
      CycleFileSystem(Seed("a.json") \o <<NL>> \o Part("child.txt"),
                      Var("x") \o PartC("root.txt"), LeafText),
      CycleFileSystem(Part("child.txt"), Part("leaf.txt"), InclH("root.txt")),
      CycleFileSystem(Part("child.txt"), Part("child.txt"), LeafText),
      CycleFileSystem(Part("leaf.txt") \o <<NL>> \o Part("child.txt"),
                      Seed("a.json") \o Part("root.txt"), LeafText),
      CycleFileSystem(Part("child.txt") \o <<NL>> \o Part("leaf.txt"),
                      <<"Hello ">>, LeafText) }

InitCycle ==
    /\ fs \in CycleFileSystems
    /\ lastIndex = [partial |-> 0, seed |-> 0]
    /\ pc = [c \in Calls |-> "idle"]
    /\ op = [c \in Calls |-> "read"]
    /\ input = [c \in Calls |-> RootFile]
    /\ result = [c \in Calls |-> NoResult]
    /\ trace = [c \in Calls |-> NoTrace]
    /\ arg = NoArg
    /\ ret = NoRet

SpecCycle == InitCycle /\ [][Next]_vars

\* the files below file in the reference tree
Descendants(file) ==
    UNION {Tree(p, MaxDepth) : p \in Range(PartialsOf(file))}

\* file references itself, directly or through other partials
InCycle(file) == Exists(file) /\ file \in Descendants(file)

\* the tree of root holds a file that references an ancestor
Cyclic(root) == \E f \in Tree(root, MaxDepth) : InCycle(f)

Count(seq, x) == Cardinality({i \in DOMAIN seq : seq[i] = x})

Finished(c) == pc[c] \in {"done", "failed"}

\* C11: when a file of the tree references an ancestor, neither read nor
\* extractPaths ever ends with a result: the call fails without text or
\* paths, and where every named file exists the failure is the exhausted
\* call stack, reached after the walk read a file of the cycle again while
\* it was being resolved, once per level of the stack.
C11_CycleExhaustsTheStack ==
    \A c \in Calls : (Finished(c) /\ Cyclic(input[c])) =>
        /\ pc[c] = "failed"
        /\ result[c].text = <<>> /\ result[c].paths = <<>>
        /\ ~Broken(input[c]) =>
              /\ result[c].err = "RangeError"
              /\ Len(trace[c].reads) > MaxDepth
              /\ \E f \in Tree(input[c], MaxDepth) :
                    InCycle(f) /\ Count(trace[c].reads, f) >= 2

\* a read and an extractPaths of a root on a cycle of three files both ran
\* out of stack after reading the root again
C11_Witness ==
    \E c, d \in Calls :
        /\ ReadSettled(c) /\ op[d] = "extractPaths" /\ Finished(d)
        /\ input[c] = RootFile /\ input[d] = RootFile
        /\ PartialsOf(RootFile) = <<ChildFile>>
        /\ PartialsOf(ChildFile) = <<LeafFile>>
        /\ PartialsOf(LeafFile) = <<RootFile>>
        /\ result[c].err = "RangeError" /\ result[d].err = "RangeError"
        /\ Count(trace[c].reads, RootFile) >= 2
        /\ Count(trace[d].reads, RootFile) >= 2

\* ---- C12
\* {{> dir/f}}
PartIn(dir, f) == <<GT, dir, SL, f, BC>>

SubChild == <<"sub", "child.txt">>
SubPart  == <<"sub", "part.txt">>
TopPart  == <<"part.txt">>

\* part.txt exists in the root's directory and in sub/; sub/child.txt and
\* the root may both name "part.txt"
DirFileSystem(rootText, kidText) ==
       (RootFile :> TextFile(rootText))
    @@ (ChildFile :> TextFile(Part("part.txt")))
    @@ (LeafFile :> TextFile(LeafText))
    @@ (TopPart :> TextFile(<<"Top">>))
    @@ (SubChild :> TextFile(kidText))
    @@ (SubPart :> TextFile(<<"Sub">>))

DirRootTexts ==
    { PartIn("sub", "child.txt") \o <<NL>> \o Part("part.txt"),
      Part("part.txt") \o <<NL>> \o PartIn("sub", "child.txt"),
      PartIn("sub", "child.txt"),
      Part("part.txt"),
      <<PO, "sub", SL, "child.txt", CC, NL>> \o InclH("part.txt"),
      PartC("part.txt") \o <<NL, HP, "sub", SL, "child.txt", Q, BC>> }

DirKidTexts ==
    { Part("part.txt"),
      <<"Kid ">> \o PartC("part.txt"),
      <<"Kid">> }

DirFileSystems ==
    {DirFileSystem(r, k) : r \in DirRootTexts, k \in DirKidTexts}

InitDirs ==
    /\ fs \in DirFileSystems
    /\ lastIndex = [partial |-> 0, seed |-> 0]
    /\ pc = [c \in Calls |-> "idle"]
    /\ op = [c \in Calls |-> "read"]
    /\ input = [c \in Calls |-> RootFile]
    /\ result = [c \in Calls |-> NoResult]
    /\ trace = [c \in Calls |-> NoTrace]
    /\ arg = NoArg
    /\ ret = NoRet

SpecDirs == InitDirs /\ [][Next]_vars

\* the reference strings of the partial directives of file
RefsOf(file) == extractPartials(rewriteSource(fs[file].text), Fresh).matches

\* the rendering of file where each reference site gets the rendering of
\* the file its string names relative to the directory of file
RECURSIVE Inlined(_, _, _)
Inlined(file, ctx, fuel) ==
    IF ~Exists(file) \/ fuel = 0 THEN RenderFailed
    ELSE Render(cleanupSource(rewriteSource(fs[file].text)),
                [ref \in Range(RefsOf(file)) |->
                    Inlined(resolve(dirname(file), ref), ctx, fuel - 1).text],
                ctx)

\* C12: the text read returns has, at each partial reference site, the
\* rendering of the file the reference string names relative to the
\* directory of the file that holds the reference, also when files of
\* different directories use the same reference string.
C12_InlinedRelativeToReferrer ==
    \A c \in Calls : ReadDone(c) =>
        result[c].text = Inlined(input[c], trace[c].seeds, MaxDepth).text

====
